---------------------------- MODULE Spec2Model ----------------------------
(***************************************************************************)
(* Model of src/BMI.c: main() prompts for a weight and a height, reads     *)
(* them with scanf("%f"), computes BMI = weight/(height*height) in float   *)
(* arithmetic, prints it, classifies it with an if / else-if chain and     *)
(* returns 0.                                                              *)
(*                                                                         *)
(* float is modelled as a reduced-precision binary format with the IEEE    *)
(* structure kept: a sign, a magnitude counted in units of 2^-FracBits,    *)
(* round-to-nearest-even, overflow to infinity, underflow to zero, signed  *)
(* zero, infinities and NaN.  The double constants of the comparisons      *)
(* carry ExtraBits more fractional bits than a float.                      *)
(*                                                                         *)
(* Two executions of the program are modelled, one after the other; both   *)
(* are given the same standard-input contents.                             *)
(***************************************************************************)
EXTENDS Integers, Sequences, FiniteSets, TLC

\* ------------------------------------------------------------------ bounds
FracBits == 4

IntBits == 10

ExtraBits == 2

MaxTokens == 2

Q == 2 ^ FracBits

FMax == (2 ^ IntBits) * Q - 1

DX == 2 ^ ExtraBits

Runs == {1, 2}

\* ------------------------------------------------------- float (src: float)
\* value of the type float: cls "fin" (sgn, mag/Q), "inf" (sgn), "nan";
\* "indet" is the content of an object that was never assigned (lines 5-7)
Fl(c, s, m) == [cls |-> c, sgn |-> s, mag |-> m]

Indet == Fl("indet", 0, 0)

NaN == Fl("nan", 0, 0)

Inf(s) == Fl("inf", s, 0)

\* round n/d (n >= 0, d > 0) to the nearest integer, ties to even
RNE(n, d) ==
    LET q == n \div d
        r == n % d
    IN  IF 2 * r < d THEN q
        ELSE IF 2 * r > d THEN q + 1
        ELSE q + (q % 2)

\* a finite result of magnitude m units, or infinity when it is out of range
MkFin(s, m) == IF m > FMax THEN Inf(s) ELSE Fl("fin", s, m)

Xor(a, b) == (a + b) % 2

\* height*height of line 15
FMul(a, b) ==
    IF a.cls = "nan" \/ b.cls = "nan" THEN NaN
    ELSE IF a.cls = "inf" \/ b.cls = "inf"
         THEN IF (a.cls = "fin" /\ a.mag = 0) \/ (b.cls = "fin" /\ b.mag = 0)
              THEN NaN
              ELSE Inf(Xor(a.sgn, b.sgn))
    ELSE MkFin(Xor(a.sgn, b.sgn), RNE(a.mag * b.mag, Q))

\* variant: every division by zero gives NaN
FDiv_ZeroIsNaN(a, b) ==
    IF a.cls = "nan" \/ b.cls = "nan" THEN NaN
    ELSE IF a.cls = "inf"
         THEN IF b.cls = "inf" THEN NaN ELSE Inf(Xor(a.sgn, b.sgn))
    ELSE IF b.cls = "inf" THEN Fl("fin", Xor(a.sgn, b.sgn), 0)
    ELSE IF b.mag = 0 THEN NaN
    ELSE MkFin(Xor(a.sgn, b.sgn), RNE(a.mag * Q, b.mag))

\* weight/(...) of line 15; a division by zero does not trap
FDiv(a, b) ==
    IF a.cls = "nan" \/ b.cls = "nan" THEN NaN
    ELSE IF a.cls = "inf"
         THEN IF b.cls = "inf" THEN NaN ELSE Inf(Xor(a.sgn, b.sgn))
    ELSE IF b.cls = "inf" THEN Fl("fin", Xor(a.sgn, b.sgn), 0)
    ELSE IF b.mag = 0
         THEN IF a.mag = 0 THEN NaN ELSE Inf(Xor(a.sgn, b.sgn))
    ELSE MkFin(Xor(a.sgn, b.sgn), RNE(a.mag * Q, b.mag))

\* the double constant written n/d in the source (18.5, 24.9, 25, 29.9),
\* in units of 1/(Q*DX)
Dbl(n, d) == RNE(n * Q * DX, d)

\* a finite float promoted to double, signed, in units of 1/(Q*DX)
Promote(x) == IF x.sgn = 1 THEN 0 - x.mag * DX ELSE x.mag * DX

\* x > c, x >= c, x <= c for a float x and a double constant c; every
\* comparison with a NaN is false
GtD(x, c) ==
    CASE x.cls = "nan" -> FALSE
      [] x.cls = "inf" -> x.sgn = 0
      [] OTHER -> Promote(x) > c

GeD(x, c) ==
    CASE x.cls = "nan" -> FALSE
      [] x.cls = "inf" -> x.sgn = 0
      [] OTHER -> Promote(x) >= c

LeD(x, c) ==
    CASE x.cls = "nan" -> FALSE
      [] x.cls = "inf" -> x.sgn = 1
      [] OTHER -> Promote(x) <= c

\* ------------------------------------------------------- standard input
\* A whitespace-separated token of standard input, as scanf("%f") sees it:
\*   "dec"     a decimal number            (s)n/d      e.g. 1.75, -70
\*   "inf"     the word inf                            (accepted by %f)
\*   "nan"     the word nan                            (accepted by %f)
\*   "decjunk" a decimal number followed by other characters, e.g. 70kg
\*   "junk"    text whose first character cannot begin a number, e.g. abc
\*   "prefix"  a proper prefix of a number that is not a number, e.g. -
Tok(k, s, n, d) == [k |-> k, s |-> s, n |-> n, d |-> d]

Junk == Tok("junk", 0, 0, 1)

Tokens ==
    { Tok("dec", 0, 0, 1),     Tok("dec", 0, 1, 10),   Tok("dec", 0, 1, 1),
      Tok("dec", 0, 175, 100), Tok("dec", 0, 180, 100), Tok("dec", 0, 185, 10),
      Tok("dec", 0, 50, 1),    Tok("dec", 0, 70, 1),   Tok("dec", 1, 70, 1),
      Tok("inf", 0, 0, 1),     Tok("nan", 0, 0, 1),
      Tok("decjunk", 0, 70, 1), Junk, Tok("prefix", 1, 0, 1) }

Streams == UNION { [1..n -> Tokens] : n \in 0..MaxTokens }

\* the %f conversion of a matching token: the nearest float
Strtof(t) ==
    CASE t.k = "inf" -> Inf(t.s)
      [] t.k = "nan" -> NaN
      [] OTHER -> MkFin(t.s, RNE(t.n * Q, t.d))

Matches(t) == t.k \in {"dec", "inf", "nan", "decjunk"}

\* variant: a failed conversion stores 0 in the object
Scanf_ZeroOnFail(in, old) ==
    IF in = << >> THEN [ret |-> 0 - 1, x |-> Fl("fin", 0, 0), rest |-> in]
    ELSE LET t == Head(in)
         IN  CASE t.k = "decjunk" ->
                    [ret |-> 1, x |-> Strtof(t), rest |-> <<Junk>> \o Tail(in)]
               [] Matches(t) /\ t.k # "decjunk" ->
                    [ret |-> 1, x |-> Strtof(t), rest |-> Tail(in)]
               [] t.k = "prefix" ->
                    [ret |-> 0, x |-> Fl("fin", 0, 0), rest |-> Tail(in)]
               [] OTHER ->
                    [ret |-> 0, x |-> Fl("fin", 0, 0), rest |-> in]

\* scanf("%f", &x) on the stream in, x holding old: the returned count, the
\* new content of x and the rest of the stream.  At end of input nothing is
\* assigned.  A matching token is converted and consumed, leaving what
\* follows the number.  A token that cannot begin a number stays unread; a
\* token that is only a prefix of a number is consumed and then fails.
Scanf(in, old) ==
    IF in = << >> THEN [ret |-> 0 - 1, x |-> old, rest |-> in]
    ELSE LET t == Head(in)
         IN  CASE t.k = "decjunk" ->
                    [ret |-> 1, x |-> Strtof(t), rest |-> <<Junk>> \o Tail(in)]
               [] Matches(t) /\ t.k # "decjunk" ->
                    [ret |-> 1, x |-> Strtof(t), rest |-> Tail(in)]
               [] t.k = "prefix" ->
                    [ret |-> 0, x |-> old, rest |-> Tail(in)]
               [] OTHER ->
                    [ret |-> 0, x |-> old, rest |-> in]

\* ------------------------------------------------------- standard output
NoVal == [sgn |-> 0, int |-> 0, frac |-> 0, word |-> "none"]

\* the text "%f" produces: sign, integer part and six decimals, or inf / nan
FmtF(x) ==
    CASE x.cls = "nan" -> [sgn |-> x.sgn, int |-> 0, frac |-> 0, word |-> "nan"]
      [] x.cls = "inf" -> [sgn |-> x.sgn, int |-> 0, frac |-> 0, word |-> "inf"]
      [] OTHER ->
           LET t == RNE((x.mag % Q) * 1000000, Q)
           IN  [sgn |-> x.sgn, int |-> x.mag \div Q + t \div 1000000,
                frac |-> t % 1000000, word |-> "num"]

Ev(op, arg, val) == [op |-> op, arg |-> arg, val |-> val]

\* the values a read of a never-assigned float can produce
Garbage == { Fl("fin", 0, 0), Fl("fin", 0, Q), Fl("fin", 0, 70 * Q), NaN }

Read(x) == IF x.cls = "indet" THEN Garbage ELSE {x}

\* variant: the first comparison is >= instead of >
Category_GeFirst(bmi) ==
    IF GeD(bmi, Dbl(185, 10)) THEN "\nUnderweight\n"
    ELSE IF GeD(bmi, Dbl(185, 10)) /\ LeD(bmi, Dbl(249, 10)) THEN "Normal weight"
    ELSE IF GeD(bmi, Dbl(25, 1)) /\ LeD(bmi, Dbl(299, 10)) THEN "Overweight"
    ELSE "Obesity"

\* variant: the first comparison is < instead of >
Category_LtFirst(bmi) ==
    IF bmi.cls # "nan" /\ ~GeD(bmi, Dbl(185, 10)) THEN "\nUnderweight\n"
    ELSE IF GeD(bmi, Dbl(185, 10)) /\ LeD(bmi, Dbl(249, 10)) THEN "Normal weight"
    ELSE IF GeD(bmi, Dbl(25, 1)) /\ LeD(bmi, Dbl(299, 10)) THEN "Overweight"
    ELSE "Obesity"

\* the if / else-if chain of lines 18-30
Category(bmi) ==
    IF GtD(bmi, Dbl(185, 10)) THEN "\nUnderweight\n"
    ELSE IF GeD(bmi, Dbl(185, 10)) /\ LeD(bmi, Dbl(249, 10)) THEN "Normal weight"
    ELSE IF GeD(bmi, Dbl(25, 1)) /\ LeD(bmi, Dbl(299, 10)) THEN "Overweight"
    ELSE "Obesity"

\* ------------------------------------------------------------------ state
VARIABLES stdin0, pc, stdin, weight, height, BMI, log, exitCode

vars == <<stdin0, pc, stdin, weight, height, BMI, log, exitCode>>

Init ==
    /\ stdin0 \in Streams
    /\ pc = [r \in Runs |-> "prompt_weight"]
    /\ stdin = [r \in Runs |-> stdin0]
    /\ weight = [r \in Runs |-> Indet]
    /\ height = [r \in Runs |-> Indet]
    /\ BMI = [r \in Runs |-> Indet]
    /\ log = [r \in Runs |-> << >>]
    /\ exitCode = [r \in Runs |-> << >>]

\* the program is run twice, the second time when the first run has exited
Started(r) == \A q \in Runs : q < r => pc[q] = "done"

\* run r is at the statement named l
At(r, l) == Started(r) /\ pc[r] = l

\* line 9
PromptWeight(r) ==
    /\ At(r, "prompt_weight")
    /\ log' = [log EXCEPT ![r] = Append(@, Ev("printf", "Enter Weight in KG:", NoVal))]
    /\ pc' = [pc EXCEPT ![r] = "scan_weight"]
    /\ UNCHANGED <<stdin0, stdin, weight, height, BMI, exitCode>>

\* variant: the count scanf returns is tested and a failed read exits with 1
ScanWeight_Validated(r) ==
    /\ At(r, "scan_weight")
    /\ LET s == Scanf(stdin[r], weight[r])
       IN  /\ weight' = [weight EXCEPT ![r] = s.x]
           /\ stdin' = [stdin EXCEPT ![r] = s.rest]
           /\ log' = [log EXCEPT ![r] = Append(@, Ev("scanf", "weight", NoVal))]
           /\ IF s.ret = 1
              THEN pc' = [pc EXCEPT ![r] = "prompt_height"] /\ UNCHANGED exitCode
              ELSE /\ pc' = [pc EXCEPT ![r] = "done"]
                   /\ exitCode' = [exitCode EXCEPT ![r] = <<1>>]
    /\ UNCHANGED <<stdin0, height, BMI>>

\* variant: the first scanf stores into height
ScanWeight_IntoHeight(r) ==
    /\ At(r, "scan_weight")
    /\ LET s == Scanf(stdin[r], height[r])
       IN  /\ height' = [height EXCEPT ![r] = s.x]
           /\ stdin' = [stdin EXCEPT ![r] = s.rest]
    /\ log' = [log EXCEPT ![r] = Append(@, Ev("scanf", "height", NoVal))]
    /\ pc' = [pc EXCEPT ![r] = "prompt_height"]
    /\ UNCHANGED <<stdin0, weight, BMI, exitCode>>

\* line 10; the count scanf returns is discarded
ScanWeight(r) ==
    /\ At(r, "scan_weight")
    /\ LET s == Scanf(stdin[r], weight[r])
       IN  /\ weight' = [weight EXCEPT ![r] = s.x]
           /\ stdin' = [stdin EXCEPT ![r] = s.rest]
    /\ log' = [log EXCEPT ![r] = Append(@, Ev("scanf", "weight", NoVal))]
    /\ pc' = [pc EXCEPT ![r] = "prompt_height"]
    /\ UNCHANGED <<stdin0, height, BMI, exitCode>>

\* line 12
PromptHeight(r) ==
    /\ At(r, "prompt_height")
    /\ log' = [log EXCEPT ![r] = Append(@, Ev("printf", "Enter Height in m:", NoVal))]
    /\ pc' = [pc EXCEPT ![r] = "scan_height"]
    /\ UNCHANGED <<stdin0, stdin, weight, height, BMI, exitCode>>

\* line 13; the count scanf returns is discarded
ScanHeight(r) ==
    /\ At(r, "scan_height")
    /\ LET s == Scanf(stdin[r], height[r])
       IN  /\ height' = [height EXCEPT ![r] = s.x]
           /\ stdin' = [stdin EXCEPT ![r] = s.rest]
    /\ log' = [log EXCEPT ![r] = Append(@, Ev("scanf", "height", NoVal))]
    /\ pc' = [pc EXCEPT ![r] = "compute"]
    /\ UNCHANGED <<stdin0, weight, BMI, exitCode>>

\* variant: the height is not squared
ComputeBMI_NoSquare(r) ==
    /\ At(r, "compute")
    /\ \E w \in Read(weight[r]), h \in Read(height[r]) :
          BMI' = [BMI EXCEPT ![r] = FDiv(w, h)]
    /\ pc' = [pc EXCEPT ![r] = "print_bmi"]
    /\ UNCHANGED <<stdin0, stdin, weight, height, log, exitCode>>

\* line 15
ComputeBMI(r) ==
    /\ At(r, "compute")
    /\ \E w \in Read(weight[r]), h \in Read(height[r]) :
          BMI' = [BMI EXCEPT ![r] = FDiv(w, FMul(h, h))]
    /\ pc' = [pc EXCEPT ![r] = "print_bmi"]
    /\ UNCHANGED <<stdin0, stdin, weight, height, log, exitCode>>

\* line 16
PrintBMI(r) ==
    /\ At(r, "print_bmi")
    /\ log' = [log EXCEPT ![r] = Append(@, Ev("printf", "Your BMI is:%f", FmtF(BMI[r])))]
    /\ pc' = [pc EXCEPT ![r] = "classify"]
    /\ UNCHANGED <<stdin0, stdin, weight, height, BMI, exitCode>>

\* variant: the second if is not chained to the first with else
Classify_NoElse(r) ==
    /\ At(r, "classify")
    /\ log' = [log EXCEPT ![r] =
                 @ \o (IF GtD(BMI[r], Dbl(185, 10))
                       THEN <<Ev("printf", "\nUnderweight\n", NoVal)>> ELSE << >>)
                   \o <<Ev("printf",
                           IF GeD(BMI[r], Dbl(185, 10)) /\ LeD(BMI[r], Dbl(249, 10))
                           THEN "Normal weight"
                           ELSE IF GeD(BMI[r], Dbl(25, 1)) /\ LeD(BMI[r], Dbl(299, 10))
                           THEN "Overweight" ELSE "Obesity", NoVal)>>]
    /\ pc' = [pc EXCEPT ![r] = "print_trail"]
    /\ UNCHANGED <<stdin0, stdin, weight, height, BMI, exitCode>>

\* lines 18-30
Classify(r) ==
    /\ At(r, "classify")
    /\ log' = [log EXCEPT ![r] = Append(@, Ev("printf", Category(BMI[r]), NoVal))]
    /\ pc' = [pc EXCEPT ![r] = "print_trail"]
    /\ UNCHANGED <<stdin0, stdin, weight, height, BMI, exitCode>>

\* line 31: the two characters '/' 'n', not a newline
PrintTrail(r) ==
    /\ At(r, "print_trail")
    /\ log' = [log EXCEPT ![r] = Append(@, Ev("printf", "/n", NoVal))]
    /\ pc' = [pc EXCEPT ![r] = "return"]
    /\ UNCHANGED <<stdin0, stdin, weight, height, BMI, exitCode>>

\* line 32
Return(r) ==
    /\ At(r, "return")
    /\ exitCode' = [exitCode EXCEPT ![r] = <<0>>]
    /\ log' = [log EXCEPT ![r] = Append(@, Ev("exit", "return", NoVal))]
    /\ pc' = [pc EXCEPT ![r] = "done"]
    /\ UNCHANGED <<stdin0, stdin, weight, height, BMI>>

Step(r) ==
    \/ PromptWeight(r)
    \/ ScanWeight(r)
    \/ PromptHeight(r)
    \/ ScanHeight(r)
    \/ ComputeBMI(r)
    \/ PrintBMI(r)
    \/ Classify(r)
    \/ PrintTrail(r)
    \/ Return(r)

Next == \E r \in Runs : Step(r)

Spec == Init /\ [][Next]_vars

FairSpec == Spec /\ WF_vars(Next)

\* ------------------------------------------------ vocabulary of the claims
Labels == {"\nUnderweight\n", "Normal weight", "Overweight", "Obesity"}

IsLabel(e) == e.op = "printf" /\ e.arg \in Labels

LabelEvents(r) == SelectSeq(log[r], IsLabel)

IsBmiLine(e) == e.op = "printf" /\ e.arg = "Your BMI is:%f"

Stdout(r) == SelectSeq(log[r], LAMBDA e : e.op = "printf")

Computed(r) == pc[r] \in {"print_bmi", "classify", "print_trail", "return", "done"}

BmiPrinted(r) == pc[r] \in {"classify", "print_trail", "return", "done"}

Classified(r) == pc[r] \in {"print_trail", "return", "done"}

Printed(r, label) == Len(LabelEvents(r)) = 1 /\ LabelEvents(r)[1].arg = label

Abs(i) == IF i < 0 THEN 0 - i ELSE i

\* x compared with 18.5 = 37/2 in exact arithmetic
Above185(x) ==
    \/ x.cls = "inf" /\ x.sgn = 0
    \/ x.cls = "fin" /\ x.sgn = 0 /\ 2 * x.mag > 37 * Q

Is185(x) == x.cls = "fin" /\ x.sgn = 0 /\ 2 * x.mag = 37 * Q

Below185(x) ==
    \/ x.cls = "inf" /\ x.sgn = 1
    \/ x.cls = "fin" /\ (2 * x.mag < 37 * Q \/ (x.sgn = 1 /\ x.mag > 0))

\* both numbers of the run were read from the input
FromInput(r) == weight[r].cls # "indet" /\ height[r].cls # "indet"

PosFin(x) == x.cls = "fin" /\ x.sgn = 0 /\ x.mag > 0

\* the integers nearest to n/d
Nearest(n, d) == { m \in {n \div d, n \div d + 1} : 2 * Abs(m * d - n) <= d }

\* the weight and height tokens of the input are the decimals wn/wd, hn/hd
InputIs(wn, wd, hn, hd) ==
    /\ Len(stdin0) >= 2
    /\ stdin0[1] = Tok("dec", 0, wn, wd)
    /\ stdin0[2] = Tok("dec", 0, hn, hd)

\* ------------------------------------------------------------------ C1
\* C1 (as stated): once the label is printed, a BMI above 18.5 has printed
\* "Underweight" and every BMI less than or equal to 18.5 has printed
\* "Obesity" (taken on the runs that read both numbers from the input).
C1_Original ==
    \A r \in Runs : (Classified(r) /\ FromInput(r)) =>
        /\ Above185(BMI[r]) => Printed(r, "\nUnderweight\n")
        /\ (Below185(BMI[r]) \/ Is185(BMI[r])) => Printed(r, "Obesity")

\* C1 (amended): a BMI above 18.5 prints "Underweight", a BMI below 18.5
\* prints "Obesity", and a BMI equal to 18.5 prints "Normal weight".
C1_AsCoded ==
    \A r \in Runs : Classified(r) =>
        /\ Above185(BMI[r]) => Printed(r, "\nUnderweight\n")
        /\ Below185(BMI[r]) => Printed(r, "Obesity")
        /\ Is185(BMI[r]) => Printed(r, "Normal weight")

C1_Witness ==
    /\ InputIs(70, 1, 175, 100)
    /\ pc[1] = "done" /\ Above185(BMI[1]) /\ Printed(1, "\nUnderweight\n")
    /\ BMI[1].cls = "fin" /\ BMI[1].mag > 22 * Q /\ BMI[1].mag < 23 * Q

\* ------------------------------------------------------------------ C2
\* C2: in every run exactly one of the four labels is printed: none before
\* the classification, one from then on, never two, also when the BMI is an
\* infinity or a NaN.
C2_ExactlyOneLabel ==
    \A r \in Runs :
        /\ Len(LabelEvents(r)) = (IF Classified(r) THEN 1 ELSE 0)
        /\ \A i \in 1..Len(log[r]) :
              (log[r][i].op = "printf" /\ ~IsLabel(log[r][i])) =>
                 log[r][i].arg \in {"Enter Weight in KG:", "Enter Height in m:",
                                    "Your BMI is:%f", "/n"}

C2_Witness ==
    /\ InputIs(0, 1, 0, 1)
    /\ \A r \in Runs :
          pc[r] = "done" /\ BMI[r].cls = "nan" /\ Printed(r, "Obesity")

\* ------------------------------------------------------------------ C3
\* C3: when the weight and the height read from the input are positive, the
\* BMI that is computed, printed and classified is the quotient of the
\* weight by the square of the height, each operation rounded to nearest
\* (an out-of-range square or quotient being infinity, a vanishing square
\* zero).
C3_BMIIsQuotient ==
    \A r \in Runs :
        (Computed(r) /\ PosFin(weight[r]) /\ PosFin(height[r])) =>
            /\ \E p \in Nearest(height[r].mag * height[r].mag, Q) :
                  CASE p = 0 -> BMI[r] = Inf(0)
                    [] p > FMax -> BMI[r] = Fl("fin", 0, 0)
                    [] OTHER ->
                         \E m \in Nearest(weight[r].mag * Q, p) :
                            IF m > FMax THEN BMI[r] = Inf(0)
                            ELSE BMI[r] = Fl("fin", 0, m)
            /\ BmiPrinted(r) =>
                  \E i \in 1..Len(log[r]) :
                     /\ IsBmiLine(log[r][i])
                     /\ IF BMI[r].cls = "inf" THEN log[r][i].val.word = "inf"
                        ELSE /\ log[r][i].val.word = "num"
                             /\ log[r][i].val.sgn = 0
                             /\ (log[r][i].val.int - BMI[r].mag \div Q) * 1000000
                                      + log[r][i].val.frac
                                   \in Nearest((BMI[r].mag % Q) * 1000000, Q)

C3_Witness ==
    /\ InputIs(70, 1, 175, 100)
    /\ pc[1] = "done" /\ PosFin(weight[1]) /\ PosFin(height[1])
    /\ BMI[1].cls = "fin" /\ BMI[1].mag > 0

\* ------------------------------------------------------------------ C4
\* C4: with weight 50 and height 1.80 (a BMI of about 15.43, below 18.5)
\* the label printed is "Underweight".
C4_Claim ==
    \A r \in Runs :
        (Classified(r) /\ InputIs(50, 1, 180, 100)) =>
            Printed(r, "\nUnderweight\n")

\* ------------------------------------------------------------------ C5
\* C5: whatever the input, a run is never rejected or aborted: every
\* statement of main is followed by the next one until the return, so each
\* run ends, and it ends with exit code 0 after having computed and
\* classified the BMI; no other exit code and no other message occurs.
C5_AlwaysExitsZero ==
    /\ <>(\A r \in Runs : pc[r] = "done")
    /\ [](\A r \in Runs :
            /\ exitCode[r] \in {<< >>, <<0>>}
            /\ pc[r] = "done" =>
                  /\ exitCode[r] = <<0>>
                  /\ BMI[r].cls # "indet"
                  /\ Len(LabelEvents(r)) = 1
                  /\ Len(Stdout(r)) = 5)

C5_Witness ==
    /\ stdin0 = <<Junk>>
    /\ \A r \in Runs : pc[r] = "done" /\ exitCode[r] = <<0>>

\* ------------------------------------------------------------------ C6
Order ==
    << "Enter Weight in KG:", "scanf weight", "Enter Height in m:",
       "scanf height", "Your BMI is:%f", "label", "/n", "exit" >>

Kind(e) ==
    CASE e.op = "scanf" -> "scanf " \o e.arg
      [] e.op = "exit" -> "exit"
      [] IsLabel(e) -> "label"
      [] OTHER -> e.arg

\* C6: the events of a run occur in one fixed order: weight prompt, read of
\* weight, height prompt, read of height, BMI line, label, "/n", exit; what
\* has happened so far is always an initial part of that order, and a
\* finished run has gone through all of it.
C6_FixedOrder ==
    \A r \in Runs :
        /\ Len(log[r]) <= Len(Order)
        /\ \A i \in 1..Len(log[r]) : Kind(log[r][i]) = Order[i]
        /\ pc[r] = "done" => Len(log[r]) = Len(Order)

C6_Witness ==
    /\ pc[1] = "done" /\ Len(log[1]) = 8
    /\ Kind(log[1][2]) = "scanf weight" /\ Kind(log[1][4]) = "scanf height"
    /\ Kind(log[1][5]) = "Your BMI is:%f" /\ Kind(log[1][6]) = "label"

\* ------------------------------------------------------------------ C7
\* C7: with a height of 0 (and a weight read from the input) the run still
\* finishes with exit code 0 and exactly one label: the BMI is +infinity
\* and the label "Underweight" when weight > 0, the BMI is NaN and the
\* label "Obesity" when weight = 0, the BMI is -infinity and the label
\* "Obesity" when weight < 0.
C7_ZeroHeight ==
    \A r \in Runs :
        (height[r].cls = "fin" /\ height[r].mag = 0
            /\ weight[r].cls \in {"fin", "inf"} /\ Computed(r)) =>
            LET w == weight[r]
                pos == w.sgn = 0 /\ (w.cls = "inf" \/ w.mag > 0)
                neg == w.sgn = 1 /\ (w.cls = "inf" \/ w.mag > 0)
            IN  /\ pos => BMI[r] = Inf(0)
                /\ neg => BMI[r] = Inf(1)
                /\ (~pos /\ ~neg) => BMI[r] = NaN
                /\ Classified(r) =>
                      Printed(r, IF pos THEN "\nUnderweight\n" ELSE "Obesity")
                /\ pc[r] = "done" => exitCode[r] = <<0>>

C7_Witness ==
    /\ stdin0 = <<Tok("dec", 0, 70, 1), Tok("dec", 0, 0, 1)>>
    /\ pc[1] = "done" /\ height[1] = Fl("fin", 0, 0) /\ BMI[1] = Inf(0)
    /\ Printed(1, "\nUnderweight\n") /\ exitCode[1] = <<0>>

\* ------------------------------------------------------------------ C8
\* C8: two runs given the same standard input print the same output (the
\* same BMI text and the same label), whatever the input is.
C8_Claim ==
    (pc[1] = "done" /\ pc[2] = "done") => Stdout(1) = Stdout(2)

Unparseable(t) == t.k \in {"junk", "prefix"}

\* C10 (as stated): when the weight token cannot be parsed it is left in
\* the input stream, the height read fails on the same token, and weight
\* and height are both never-assigned when the BMI is computed; a valid
\* weight followed by an unparseable height leaves height never-assigned.
C10_Original ==
    \A r \in Runs : Computed(r) =>
        /\ (Len(stdin0) >= 1 /\ Unparseable(stdin0[1])) =>
              /\ stdin[r] = stdin0
              /\ weight[r] = Indet /\ height[r] = Indet
        /\ (Len(stdin0) >= 2 /\ ~Unparseable(stdin0[1]) /\ Unparseable(stdin0[2])) =>
              height[r] = Indet

\* C10 (amended): an unparseable weight token leaves weight never-assigned.
\* If the token cannot begin a number it stays in the stream, the height
\* read fails on it and height is never-assigned too.  If the token is only
\* a prefix of a number (a lone sign) scanf consumes it and the height read
\* takes the next token, so height is never-assigned only when that next
\* token is missing or unparseable.  A valid weight followed by an
\* unparseable height leaves height never-assigned.
C10_NeverAssigned ==
    \A r \in Runs : Computed(r) =>
        /\ (Len(stdin0) >= 1 /\ Unparseable(stdin0[1])) => weight[r] = Indet
        /\ (Len(stdin0) >= 1 /\ stdin0[1].k = "junk") =>
              stdin[r] = stdin0 /\ height[r] = Indet
        /\ (Len(stdin0) >= 1 /\ stdin0[1].k = "prefix") =>
              /\ Len(stdin[r]) < Len(stdin0)
              /\ height[r] = Indet <=>
                    (Len(stdin0) = 1 \/ Unparseable(stdin0[2]))
        /\ (Len(stdin0) >= 2 /\ ~Unparseable(stdin0[1]) /\ Unparseable(stdin0[2])) =>
              weight[r] # Indet /\ height[r] = Indet

C10_Witness ==
    /\ stdin0 = <<Tok("prefix", 1, 0, 1), Tok("dec", 0, 180, 100)>>
    /\ pc[1] = "done" /\ weight[1] = Indet /\ height[1].cls = "fin"
    /\ pc[2] = "done"

=============================================================================
